---- MODULE Spec2Model ----
(***************************************************************************)
(* The batch synthesis driver of generate_tts_azure_db.py (main) as a      *)
(* state machine: the phrases table as committed in PostgreSQL (db), the   *)
(* same table as the driver's connection sees it inside its open           *)
(* transaction (sess, autocommit is off), the artifact files of out_dir    *)
(* (files), and the position of main in its while/for loops (pc).          *)
(***************************************************************************)
EXTENDS Naturals, Integers, Sequences, FiniteSets, TLC

\* ---- bounds of the model -------------------------------------------------
NumRecords == 3        \* rows of the phrases table
MaxBatch == 2          \* largest --batch-size tried
MaxAttemptsHi == 2     \* largest --max-attempts tried
MaxRuns == 2           \* invocations of main in one behaviour

Ids == 1..NumRecords

NULL == "NULL"
\* synthesize_to_file's message: "TTS failed, reason=..." (one representative)
ErrMsg == "TTS failed"

\* State of out_dir/{id:06d}.mp3: absent, present with size 0, present with size > 0
FileStates == {"none", "empty", "data"}

VARIABLES
    db,             \* committed rows: id -> [tts_ok, tts_attempts, tts_error]
    sess,           \* rows as seen by conn (committed + own uncommitted UPDATEs)
    files,          \* id -> FileStates
    pc,             \* "idle" | "while" | "for" | "called" | "sleep" | "finished" | "crashed"
    max_attempts,   \* args.max_attempts
    dry_run,        \* args.dry_run
    max_phrases,    \* args.max_phrases
    batch_size,     \* args.batch_size
    sleep_on_error, \* args.sleep_on_error
    total_pending,
    total_target,
    processed, done, skipped, failed,
    rows,           \* the fetched page: sequence of [id, tts_attempts]
    idx,            \* position of the for loop in rows
    ok,             \* result of synthesize_to_file while pc = "called" / "sleep"
    trace,          \* history: what this run did, <<[id, kind]>>, kind in Kinds
    db0, files0,    \* history: db and files when this run started
    runs,           \* history: number of invocations so far
    \* dump_phrases_backup.py
    phrases,        \* the phrase column: id -> text (a sequence of characters) or PhraseNull
    dump_pc,        \* "idle" | "dumping" | "closed"
    cur,            \* rows the cursor has still to yield: sequence of [id, phrase]
    fout,           \* characters written to the backup file
    rows_written

drivervars == <<db, sess, files, pc, max_attempts, dry_run, max_phrases, batch_size,
          sleep_on_error, total_pending, total_target, processed, done, skipped,
          failed, rows, idx, ok, trace, db0, files0, runs>>

dumpvars == <<phrases, dump_pc, cur, fout, rows_written>>

vars == <<drivervars, dumpvars>>

Kinds == {"reconciled", "dry", "ok", "fail"}

Min(a, b) == IF a < b THEN a ELSE b

\* ---- the SQL of main -----------------------------------------------------

\* WHERE tts_ok = false AND tts_attempts < %s
EligibleNoCap(r, m) == r.tts_ok = FALSE
EligibleLe(r, m) == r.tts_ok = FALSE /\ r.tts_attempts <= m
EligibleAny(r, m) == r.tts_attempts < m
Eligible(r, m) == r.tts_ok = FALSE /\ r.tts_attempts < m

EligibleIds(t, m) == {i \in Ids : Eligible(t[i], m)}

\* ORDER BY id
RECURSIVE OrderById(_)
OrderById(S) ==
    IF S = {} THEN <<>>
    ELSE LET m == CHOOSE x \in S : \A y \in S : x <= y
         IN <<m>> \o OrderById(S \ {m})

\* SELECT id, phrase, tts_attempts ... ORDER BY id LIMIT %s
FetchPage(t, m, n) ==
    LET ids == OrderById(EligibleIds(t, m))
    IN [k \in 1..Min(n, Len(ids)) |->
            [id |-> ids[k], tts_attempts |-> t[ids[k]].tts_attempts]]

\* SELECT COUNT(*) ... ; then total_target
TotalPending(t, m) == Cardinality(EligibleIds(t, m))

TotalTarget(mp, pending) ==
    IF mp > 0 /\ mp < pending THEN mp ELSE pending

\* out_file.exists() and out_file.stat().st_size > 0 and not args.dry_run
ShouldReconcileAnyRun(f, dry) == f = "data"
ShouldReconcileExists(f, dry) == f # "none" /\ ~dry
ShouldReconcile(f, dry) == f = "data" /\ ~dry

\* UPDATE phrases SET tts_ok = true, tts_error = NULL WHERE id = %s
ReconcileUpdateResetAttempts(r) == [tts_ok |-> TRUE, tts_attempts |-> 0, tts_error |-> NULL]
ReconcileUpdate(r) == [r EXCEPT !.tts_ok = TRUE, !.tts_error = NULL]

\* UPDATE phrases SET tts_ok = true, tts_attempts = %s, tts_error = NULL WHERE id = %s
SuccessUpdateKeepAttempts(r, attempts) == [r EXCEPT !.tts_ok = TRUE, !.tts_error = NULL]
SuccessUpdate(r, attempts) ==
    [tts_ok |-> TRUE, tts_attempts |-> attempts, tts_error |-> NULL]

\* UPDATE phrases SET tts_ok = false, tts_attempts = %s, tts_error = %s WHERE id = %s
FailureUpdateKeepAttempts(r, attempts, err) == [r EXCEPT !.tts_ok = FALSE, !.tts_error = err]
FailureUpdate(r, attempts, err) ==
    [tts_ok |-> FALSE, tts_attempts |-> attempts, tts_error |-> err]

\* What the provider leaves at out_path: the audio on success; on failure the
\* file the SDK opened for writing, empty or holding a partial stream.
ProviderFiles(success) == IF success THEN {"data"} ELSE {"empty", "data"}

\* if total_target == 0: conn.close(); return (186-189)
EarlyExitNever(target) == FALSE
EarlyExit(target) == target = 0

\* while processed < total_target (199)
WhileCondForever(p, target) == TRUE
WhileCond(p, target) == p < target

\* where main goes once the outcome is stored: sleep(args.sleep_on_error)
\* if not ok and args.sleep_on_error > 0, else the next row (279-282)
AfterStoreAbortOnFailure(success, so) == IF ~success THEN "finished" ELSE "for"
AfterStoreSleepAlways(success, so) == IF so > 0 THEN "sleep" ELSE "for"
AfterStore(success, so) == IF ~success /\ so > 0 THEN "sleep" ELSE "for"

\* ---- initial states ------------------------------------------------------

Row(o, a, e) == [tts_ok |-> o, tts_attempts |-> a, tts_error |-> e]

\* A table as ingestion and earlier runs of the driver leave it, row by row:
\* never tried; artifact written but the update never committed; synthesized;
\* failed once.
InitRecords ==
    { <<Row(FALSE, 0, NULL), "none">>,
      <<Row(FALSE, 0, NULL), "data">>,
      <<Row(TRUE, 1, NULL), "data">>,
      <<Row(FALSE, 1, ErrMsg), "empty">> }

Init ==
    /\ \E init \in [Ids -> InitRecords] :
          /\ db = [i \in Ids |-> init[i][1]]
          /\ files = [i \in Ids |-> init[i][2]]
    /\ sess = db
    /\ pc = "idle"
    /\ max_attempts = 1
    /\ dry_run = FALSE
    /\ max_phrases = 0
    /\ batch_size = 1
    /\ sleep_on_error = 0
    /\ total_pending = 0
    /\ total_target = 0
    /\ processed = 0 /\ done = 0 /\ skipped = 0 /\ failed = 0
    /\ rows = <<>>
    /\ idx = 1
    /\ ok = FALSE
    /\ trace = <<>>
    /\ db0 = db
    /\ files0 = files
    /\ runs = 0
    /\ phrases = [i \in Ids |-> <<"a">>]
    /\ dump_pc = "idle" /\ cur = <<>> /\ fout = <<>> /\ rows_written = 0

\* ---- actions -------------------------------------------------------------

Resting == pc \in {"idle", "finished", "crashed"}

\* main up to the loop: parse the arguments, connect, count the eligible rows,
\* total_target, return at once when it is 0 (lines 153-196)
StartRun(dry, mp, bs, so, ma) ==
    /\ Resting
    /\ runs < MaxRuns
    /\ runs' = runs + 1
    /\ dry_run' = dry /\ max_phrases' = mp /\ batch_size' = bs /\ sleep_on_error' = so
    /\ max_attempts' = ma
    /\ sess' = db
    /\ total_pending' = TotalPending(db, ma)
    /\ total_target' = TotalTarget(mp, total_pending')
    /\ pc' = IF EarlyExit(total_target') THEN "finished" ELSE "while"
    /\ processed' = 0 /\ done' = 0 /\ skipped' = 0 /\ failed' = 0
    /\ rows' = <<>> /\ idx' = 1 /\ ok' = FALSE
    /\ trace' = <<>> /\ db0' = db /\ files0' = files
    /\ UNCHANGED <<db, files>>
    /\ UNCHANGED dumpvars

\* while processed < total_target: fetch the next page; an empty page or a
\* reached target leaves the loop, and finally: conn.close() discards whatever
\* the transaction has not committed (lines 199-216, 284-286)
WhileHead ==
    /\ pc = "while"
    /\ LET page == FetchPage(sess, max_attempts, batch_size)
       IN IF WhileCond(processed, total_target) /\ page # <<>>
          THEN /\ rows' = page /\ idx' = 1 /\ pc' = "for"
               /\ UNCHANGED sess
          ELSE /\ rows' = <<>> /\ idx' = 1 /\ pc' = "finished"
               /\ sess' = db
    /\ UNCHANGED <<db, files, max_attempts, dry_run, max_phrases, batch_size,
                   sleep_on_error, total_pending, total_target, processed, done,
                   skipped, failed, ok, trace, db0, files0, runs>>
    /\ UNCHANGED dumpvars

\* for row in rows: exhausted, or processed >= total_target: break (218-220)
ForExit ==
    /\ pc = "for"
    /\ idx > Len(rows) \/ processed >= total_target
    /\ pc' = "while"
    /\ UNCHANGED <<db, sess, files, max_attempts, dry_run, max_phrases, batch_size,
                   sleep_on_error, total_pending, total_target, processed, done,
                   skipped, failed, rows, idx, ok, trace, db0, files0, runs>>
    /\ UNCHANGED dumpvars

InBody == pc = "for" /\ idx <= Len(rows) /\ processed < total_target

\* the artifact exists and is not empty: UPDATE, count as skipped, continue
\* (no commit on this path) (229-238)
Reconcile ==
    /\ InBody
    /\ LET phrase_id == rows[idx].id
       IN /\ ShouldReconcile(files[phrase_id], dry_run)
          /\ sess' = [sess EXCEPT ![phrase_id] = ReconcileUpdate(sess[phrase_id])]
          /\ trace' = Append(trace, [id |-> phrase_id, kind |-> "reconciled"])
    /\ skipped' = skipped + 1
    /\ processed' = processed + 1
    /\ idx' = idx + 1
    /\ UNCHANGED <<db, files, pc, max_attempts, dry_run, max_phrases, batch_size,
                   sleep_on_error, total_pending, total_target, done, failed,
                   rows, ok, db0, files0, runs>>
    /\ UNCHANGED dumpvars

\* dry run: print the preview, count as skipped, continue (240-246)
DryRunSkipCountsDone ==
    /\ InBody
    /\ LET phrase_id == rows[idx].id
       IN /\ ~ShouldReconcile(files[phrase_id], dry_run)
          /\ dry_run
          /\ trace' = Append(trace, [id |-> phrase_id, kind |-> "dry"])
    /\ processed' = processed + 1
    /\ done' = done + 1
    /\ idx' = idx + 1
    /\ UNCHANGED <<db, sess, files, pc, max_attempts, dry_run, max_phrases,
                   batch_size, sleep_on_error, total_pending, total_target, skipped,
                   failed, rows, ok, db0, files0, runs>>
    /\ UNCHANGED dumpvars

DryRunSkip ==
    /\ InBody
    /\ LET phrase_id == rows[idx].id
       IN /\ ~ShouldReconcile(files[phrase_id], dry_run)
          /\ dry_run
          /\ trace' = Append(trace, [id |-> phrase_id, kind |-> "dry"])
    /\ processed' = processed + 1
    /\ skipped' = skipped + 1
    /\ idx' = idx + 1
    /\ UNCHANGED <<db, sess, files, pc, max_attempts, dry_run, max_phrases,
                   batch_size, sleep_on_error, total_pending, total_target, done,
                   failed, rows, ok, db0, files0, runs>>
    /\ UNCHANGED dumpvars

\* ok, err = synthesize_to_file(speech_config, phrase, out_file) (248, 70-97)
Synthesize(success) ==
    /\ InBody
    /\ LET phrase_id == rows[idx].id
       IN /\ ~ShouldReconcile(files[phrase_id], dry_run)
          /\ ~dry_run
          /\ \E f \in ProviderFiles(success) :
                files' = [files EXCEPT ![phrase_id] = f]
          /\ trace' = Append(trace, [id |-> phrase_id,
                                     kind |-> IF success THEN "ok" ELSE "fail"])
    /\ ok' = success
    /\ pc' = "called"
    /\ UNCHANGED <<db, sess, max_attempts, dry_run, max_phrases, batch_size,
                   sleep_on_error, total_pending, total_target, processed, done,
                   skipped, failed, rows, idx, db0, files0, runs>>
    /\ UNCHANGED dumpvars

\* attempts += 1; UPDATE by outcome; conn.commit(); processed += 1 (249-279)
Persist ==
    /\ pc = "called"
    /\ LET phrase_id == rows[idx].id
           attempts == rows[idx].tts_attempts + 1
           upd == IF ok THEN SuccessUpdate(sess[phrase_id], attempts)
                        ELSE FailureUpdate(sess[phrase_id], attempts, ErrMsg)
       IN /\ sess' = [sess EXCEPT ![phrase_id] = upd]
          /\ db' = sess'
    /\ done' = IF ok THEN done + 1 ELSE done
    /\ failed' = IF ok THEN failed ELSE failed + 1
    /\ processed' = processed + 1
    /\ pc' = AfterStore(ok, sleep_on_error)
    /\ idx' = IF pc' = "for" THEN idx + 1 ELSE idx
    /\ UNCHANGED <<files, max_attempts, dry_run, max_phrases, batch_size,
                   sleep_on_error, total_pending, total_target, skipped, rows,
                   ok, trace, db0, files0, runs>>
    /\ UNCHANGED dumpvars

\* sleep(args.sleep_on_error) returns (281-282)
Sleep ==
    /\ pc = "sleep"
    /\ pc' = "for"
    /\ idx' = idx + 1
    /\ UNCHANGED <<db, sess, files, max_attempts, dry_run, max_phrases, batch_size,
                   sleep_on_error, total_pending, total_target, processed, done,
                   skipped, failed, rows, ok, trace, db0, files0, runs>>
    /\ UNCHANGED dumpvars

\* the process is terminated: the server rolls the open transaction back
Crash ==
    /\ pc \in {"while", "for", "called", "sleep"}
    /\ pc' = "crashed"
    /\ sess' = db
    /\ UNCHANGED <<db, files, max_attempts, dry_run, max_phrases, batch_size,
                   sleep_on_error, total_pending, total_target, processed, done,
                   skipped, failed, rows, idx, ok, trace, db0, files0, runs>>
    /\ UNCHANGED dumpvars

Next ==
    \/ \E dry \in BOOLEAN, mp \in 0..NumRecords, bs \in 1..MaxBatch, so \in {0, 1},
          ma \in 1..MaxAttemptsHi :
          StartRun(dry, mp, bs, so, ma)
    \/ WhileHead
    \/ ForExit
    \/ Reconcile
    \/ DryRunSkip
    \/ \E success \in BOOLEAN : Synthesize(success)
    \/ Persist
    \/ Sleep
    \/ Crash

Spec == Init /\ [][Next]_vars

TypeOK ==
    /\ db \in [Ids -> [tts_ok : BOOLEAN, tts_attempts : 0..MaxAttemptsHi,
                       tts_error : {NULL, ErrMsg}]]
    /\ sess \in [Ids -> [tts_ok : BOOLEAN, tts_attempts : 0..MaxAttemptsHi,
                         tts_error : {NULL, ErrMsg}]]
    /\ files \in [Ids -> FileStates]
    /\ pc \in {"idle", "while", "for", "called", "sleep", "finished", "crashed"}
    /\ processed \in 0..NumRecords
    /\ \A k \in 1..Len(trace) : trace[k].id \in Ids /\ trace[k].kind \in Kinds

\* ---- vocabulary of the properties ------------------------------------------

InRun == pc \in {"while", "for", "called", "sleep"}

\* the driver is between two records (or between the last record and the end)
BetweenRecords == pc \in {"while", "for"}

TraceIds == {trace[k].id : k \in 1..Len(trace)}

\* provider calls made for record i in this run
Calls(i) ==
    Cardinality({k \in 1..Len(trace) : trace[k].id = i /\ trace[k].kind \in {"ok", "fail"}})

Exhausted(r) == r.tts_ok = FALSE /\ r.tts_attempts = max_attempts

\* ---- C1 --------------------------------------------------------------------
\* C1: in a non-dry run, whenever the driver is between two records every
\* handled record's update is committed (the connection holds no uncommitted
\* change), and when the run has ended, normally or by termination between
\* records, every reconciled record is stored as tts_ok = true.
C1_CommittedAfterEachRecord ==
    /\ (~dry_run /\ BetweenRecords) => sess = db
    /\ (~dry_run /\ pc = "finished") =>
          \A k \in 1..Len(trace) :
             trace[k].kind = "reconciled" => db[trace[k].id].tts_ok

\* ---- C2 --------------------------------------------------------------------
\* C2: after a non-dry run has finished, every record it reconciled is stored
\* with tts_ok = true and tts_error = NULL.
C2_ReconciledStoredAfterRun ==
    (~dry_run /\ pc = "finished") =>
        \A k \in 1..Len(trace) :
           trace[k].kind = "reconciled" =>
              /\ db[trace[k].id].tts_ok = TRUE
              /\ db[trace[k].id].tts_error = NULL

\* ---- C3 --------------------------------------------------------------------
\* C3: within one run the provider is called at most once for any record.
C3_AtMostOneCallPerRun ==
    \A i \in Ids : Calls(i) <= 1

\* ---- C4 --------------------------------------------------------------------
\* C4: a finished run with 0 < max_phrases < total_pending has handled exactly
\* max_phrases distinct records, and every other record has its row and its
\* artifact as they were when the run started.
C4_ExactlyNDistinctRecords ==
    (pc = "finished" /\ max_phrases > 0 /\ max_phrases < total_pending) =>
        /\ Cardinality(TraceIds) = max_phrases
        /\ \A i \in Ids \ TraceIds : db[i] = db0[i] /\ files[i] = files0[i]

\* ---- C5 --------------------------------------------------------------------
\* C5: in the committed table, tts_ok = true implies tts_error = NULL and a
\* non-empty artifact for that id, in every state of every sequence of runs
\* and terminations.
C5_OkImpliesArtifact ==
    \A i \in Ids :
        db[i].tts_ok => (db[i].tts_error = NULL /\ files[i] = "data")

\* a second run was terminated after a record became tts_ok in it, by a
\* synthesis or by a reconciliation that a later commit made durable
C5_Witness ==
    /\ runs = 2 /\ pc = "crashed"
    /\ \E i, j \in Ids :
          /\ db[i].tts_ok /\ ~db0[i].tts_ok /\ Calls(i) = 0
          /\ db[j].tts_ok /\ ~db0[j].tts_ok /\ Calls(j) > 0

\* ---- C6 --------------------------------------------------------------------
\* C6: when the provider reported success for a record and the driver stores
\* the outcome, the record is committed with tts_ok = true, tts_error = NULL
\* and tts_attempts one more than before, and its artifact is non-empty.
C6_SuccessStored ==
    [][(pc = "called" /\ ok /\ pc' # "crashed") =>
          LET i == rows[idx].id
          IN /\ db'[i].tts_ok = TRUE
             /\ db'[i].tts_error = NULL
             /\ db'[i].tts_attempts = db[i].tts_attempts + 1
             /\ sess'[i] = db'[i]
             /\ files'[i] = "data"]_vars

\* a record tried before is synthesized successfully and stored
C6_Witness ==
    /\ pc = "for" /\ ~dry_run /\ Len(trace) > 0
    /\ trace[Len(trace)].kind = "ok"
    /\ db[trace[Len(trace)].id] = Row(TRUE, 2, NULL)
    /\ db0[trace[Len(trace)].id] = Row(FALSE, 1, ErrMsg)

\* ---- C7 --------------------------------------------------------------------
\* C7: when the provider reported a failure for a record and the driver stores
\* the outcome, the record's tts_attempts grows by exactly 1, tts_ok stays
\* false and tts_error is a message; the statement changes no other row.
C7_FailureStored ==
    [][(pc = "called" /\ ~ok /\ pc' # "crashed") =>
          LET i == rows[idx].id
          IN /\ sess[i].tts_ok = FALSE
             /\ sess'[i].tts_ok = FALSE
             /\ sess'[i].tts_attempts = sess[i].tts_attempts + 1
             /\ sess'[i].tts_error # NULL
             /\ db'[i] = sess'[i]
             /\ \A j \in Ids \ {i} : sess'[j] = sess[j]]_vars

\* a failure was stored while other rows were eligible and one was reconciled
C7_Witness ==
    /\ pc \in {"for", "sleep"} /\ Len(trace) > 1
    /\ trace[Len(trace)].kind = "fail"
    /\ trace[1].kind = "reconciled"
    /\ db[trace[Len(trace)].id].tts_attempts = db0[trace[Len(trace)].id].tts_attempts + 1
    /\ db[trace[Len(trace)].id].tts_error = ErrMsg

\* ---- C8 --------------------------------------------------------------------
\* C8: a record stored with tts_ok = true when a run starts is not handled by
\* that run: it never enters a fetched page, no provider call is made for it,
\* it is not counted, and its row stays as it was.
C8_OkNeverReprocessed ==
    \A i \in Ids :
        (runs > 0 /\ db0[i].tts_ok) =>
            /\ i \notin TraceIds
            /\ \A k \in 1..Len(rows) : rows[k].id # i
            /\ db[i] = db0[i]
            /\ sess[i] = db0[i]

\* a second run handles records while one that an earlier run synthesized
\* (tts_attempts = 2 is not an initial value of a tts_ok row) is left alone
C8_Witness ==
    /\ runs = 2 /\ pc = "finished" /\ processed > 0 /\ ~dry_run
    /\ \E i \in Ids : db0[i] = Row(TRUE, 2, NULL)

\* ---- C9 --------------------------------------------------------------------
\* C9: a dry run calls no provider, creates or changes no artifact and leaves
\* every row as it was, committed and inside the transaction.
C9_DryRunNoEffect ==
    (runs > 0 /\ dry_run) =>
        /\ db = db0 /\ sess = db0 /\ files = files0
        /\ \A k \in 1..Len(trace) : trace[k].kind = "dry"

\* a dry run previewed a record whose artifact exists and is not empty
C9_Witness ==
    /\ dry_run /\ pc = "finished"
    /\ \E k \in 1..Len(trace) : files[trace[k].id] = "data"

\* ---- C10 -------------------------------------------------------------------
\* C10: a record stored with tts_ok = false and tts_attempts = max_attempts is
\* in no page fetched from then on, gets no provider call and keeps its row,
\* in this run and in later ones started with the same max_attempts.
C10_ExhaustedExcluded ==
    [][\A i \in Ids :
          (Exhausted(db[i]) /\ max_attempts' = max_attempts) =>
             /\ db'[i] = db[i]
             /\ sess'[i] = db[i]
             /\ (rows' # rows => \A k \in 1..Len(rows') : rows'[k].id # i)
             /\ (trace' # trace /\ trace' # <<>>) => trace'[Len(trace')].id # i]_vars

\* a record failed its way to max_attempts = 2 in this run and a page was
\* fetched afterwards
C10_Witness ==
    /\ pc = "for" /\ max_attempts = 2
    /\ \E i \in Ids :
          /\ Exhausted(db[i]) /\ Calls(i) > 0
          /\ \A k \in 1..Len(rows) : rows[k].id # i

\* ---- C11 -------------------------------------------------------------------
\* C11: storing a failed synthesis records it for that record and leaves the
\* run going (next row, or the backoff before it); a run in progress ends
\* only at the loop head, because the target is reached or the fetched page
\* is empty.
C11_FailureNotFatal ==
    [][/\ (pc = "called" /\ ~ok /\ processed' = processed + 1) =>
             /\ pc' \in {"for", "sleep"}
             /\ db'[rows[idx].id].tts_error # NULL
             /\ failed' = failed + 1
       /\ (InRun /\ pc' = "finished") =>
             /\ pc = "while"
             /\ \/ processed >= total_target
                \/ FetchPage(sess, max_attempts, batch_size) = <<>>]_vars

\* a run that stored a failure went on to handle a later record and finished
C11_Witness ==
    /\ pc = "finished" /\ Len(trace) > 1
    /\ \E k \in 1..(Len(trace) - 1) :
          trace[k].kind = "fail" /\ trace[k + 1].id # trace[k].id

\* ---- C12 -------------------------------------------------------------------
\* C12: a run that finds total_target = 0 has ended at once: no page fetched,
\* no record handled, no provider call, rows and artifacts as at its start.
C12_NothingToDo ==
    (runs > 0 /\ total_target = 0) =>
        /\ pc = "finished"
        /\ rows = <<>> /\ trace = <<>> /\ processed = 0
        /\ db = db0 /\ sess = db0 /\ files = files0

\* a second run finds nothing eligible: every row is done or out of attempts,
\* one of them with an artifact on disk
C12_Witness ==
    /\ runs = 2 /\ total_target = 0 /\ pc = "finished"
    /\ \E i \in Ids : Exhausted(db[i]) /\ files[i] = "data"

\* ---- C13 -------------------------------------------------------------------
\* C13: the backoff pause is entered exactly by storing (and committing) a
\* failed synthesis with sleep_on_error > 0, and is left for the next row
\* without handling anything in between; no other step pauses.
C13_BackoffOnlyAfterFailure ==
    [][/\ (pc = "called" /\ processed' = processed + 1) =>
             (pc' = "sleep" <=> (~ok /\ sleep_on_error > 0))
       /\ (pc # "sleep" /\ pc' = "sleep") =>
             /\ pc = "called" /\ ~ok
             /\ trace[Len(trace)].kind = "fail"
             /\ db' = sess'
             /\ db'[rows[idx].id] =
                   Row(FALSE, rows[idx].tts_attempts + 1, ErrMsg)
       /\ (pc = "sleep" /\ pc' # "sleep") =>
             /\ pc' \in {"for", "crashed"}
             /\ trace' = trace /\ db' = db]_vars

\* the driver pauses after a committed failure that followed a success
C13_Witness ==
    /\ pc = "sleep" /\ sleep_on_error > 0 /\ Len(trace) > 1
    /\ trace[Len(trace)].kind = "fail"
    /\ trace[Len(trace) - 1].kind = "ok"
    /\ db[trace[Len(trace)].id].tts_error = ErrMsg

\* ---- C14 -------------------------------------------------------------------
\* C14: a finished run has handled exactly the total_target smallest ids that
\* were eligible at its start, each once, in ascending order.
HandledIds == [k \in 1..Len(trace) |-> trace[k].id]

C14_SmallestIdsOnceInOrder ==
    (pc = "finished" /\ runs > 0) =>
        HandledIds = SubSeq(OrderById(EligibleIds(db0, max_attempts)), 1, total_target)

\* ---- C15 -------------------------------------------------------------------
\* The statements of main run one after the other and every provider call
\* returns: a step of the run that can be taken is eventually taken.
RunStep ==
    \/ WhileHead
    \/ ForExit
    \/ Reconcile
    \/ DryRunSkip
    \/ \E success \in BOOLEAN : Synthesize(success)
    \/ Persist
    \/ Sleep

LiveSpec == Init /\ [][Next]_vars /\ WF_vars(RunStep)

\* C15: every run in progress comes to an end; it never takes more than
\* total_target record steps, and it leaves the loop only with
\* processed = total_target or on an empty page.
C15_RunTerminates ==
    /\ InRun ~> Resting
    /\ [](Len(trace) <= total_target /\ processed <= total_target)
    /\ [][(pc = "while" /\ pc' = "finished") =>
            \/ processed = total_target
            \/ FetchPage(sess, max_attempts, batch_size) = <<>>]_vars

\* a run over every row of the table, one of them failing, reached its target
\* and ended
C15_Witness ==
    /\ pc = "finished" /\ runs > 0
    /\ processed = total_target /\ total_target = NumRecords
    /\ \E k \in 1..Len(trace) : trace[k].kind = "fail"

\* ---- C16 -------------------------------------------------------------------
\* record steps of this run that are counted (the outcome of a call is counted
\* when it is stored) and whose kind is in K
Counted(K) == Cardinality({k \in 1..processed : trace[k].kind \in K})

\* C16: processed = done + skipped + failed and processed <= total_target;
\* done counts the successful calls, failed the failed calls, skipped the
\* dry-run previews and the reconciled records.
C16_CountersAddUp ==
    /\ processed = done + skipped + failed
    /\ processed <= total_target
    /\ processed <= Len(trace)
    /\ done = Counted({"ok"})
    /\ failed = Counted({"fail"})
    /\ skipped = Counted({"dry", "reconciled"})

\* a run counted a success, a failure and a reconciled record
C16_Witness ==
    /\ InRun /\ done = 1 /\ failed = 1 /\ skipped = 1 /\ processed = 3

\* ---- C17 -------------------------------------------------------------------
\* C17: as long as the runs use one max_attempts, a row whose tts_attempts is
\* within it stays within it, in the committed table and inside the
\* transaction, over runs, failures and terminations.
C17_AttemptsCapped ==
    [][max_attempts' = max_attempts =>
          \A i \in Ids :
             (db[i].tts_attempts <= max_attempts /\ sess[i].tts_attempts <= max_attempts)
             => /\ db'[i].tts_attempts <= max_attempts
                /\ sess'[i].tts_attempts <= max_attempts]_vars

\* in a second run with the cap of the first (a first run with
\* max_attempts = 1 would not have left tts_attempts = 2) a record that had
\* failed before used its last attempt
C17_Witness ==
    /\ runs = 2 /\ max_attempts = 2
    /\ \E j \in Ids : db0[j].tts_attempts = 2
    /\ \E i \in Ids :
          /\ db0[i] = Row(FALSE, 1, ErrMsg)
          /\ db[i].tts_attempts = 2
          /\ Calls(i) = 1

\* ---- C18 -------------------------------------------------------------------
\* C18: in the committed table tts_ok never goes from true to false and
\* tts_attempts never decreases, the set of rows stays the same, and an
\* artifact that exists is never removed.
C18_Monotone ==
    [][/\ DOMAIN db' = DOMAIN db
       /\ phrases' = phrases
       /\ \A i \in Ids :
             /\ db[i].tts_ok => db'[i].tts_ok
             /\ db'[i].tts_attempts >= db[i].tts_attempts
             /\ files[i] # "none" => files'[i] # "none"
             /\ files[i] = "data" => files'[i] = "data"]_vars

\* one commit stored a success and made an earlier reconciliation durable,
\* for a record that had failed once and one whose empty file was rewritten
C18_Witness ==
    /\ runs > 0 /\ pc = "for"
    /\ \E i, j \in Ids :
          /\ db0[i] = Row(FALSE, 1, ErrMsg) /\ db[i] = Row(TRUE, 1, NULL)
          /\ files0[j] = "empty" /\ files[j] = "data" /\ db[j].tts_ok

\* ---- dump_phrases_backup.py (main) -----------------------------------------

MaxDumpRows == 2       \* rows of the table in a dump
MaxPhraseLen == 2      \* longest phrase in a dump

\* ids need not be dense, and a larger id may have more digits
DumpIds == {7 * k : k \in 1..MaxDumpRows}

TAB == "\t"
CR == "\r"
LF == "\n"
SP == " "

\* a NULL phrase column (no character of a phrase is this token)
PhraseNull == <<"NULL">>

PhraseChars == {"a", TAB, CR, LF}

PhraseValues ==
    {PhraseNull} \cup UNION {[1..n -> PhraseChars] : n \in 0..MaxPhraseLen}

\* str.replace(old, new) for one-character old and new
Replace(str, old, new) ==
    [k \in 1..Len(str) |-> IF str[k] = old THEN new ELSE str[k]]

\* phr.replace("\t", " ").replace("\r", " ").replace("\n", " ") (98)
CleanKeepNewline(phr) == Replace(Replace(phr, TAB, SP), CR, SP)
Clean(phr) == Replace(Replace(Replace(phr, TAB, SP), CR, SP), LF, SP)

\* row["phrase"] or "" (95)
OrEmpty(phr) == IF phr = PhraseNull THEN <<>> ELSE phr

\* f"{pid}" : the decimal digits of the id (100)
Digit(d) == <<"0", "1", "2", "3", "4", "5", "6", "7", "8", "9">>[d + 1]

RECURSIVE IdText(_)
IdText(n) == IF n < 10 THEN <<Digit(n)>> ELSE Append(IdText(n \div 10), Digit(n % 10))

\* fout.write("id\tphrase\n") (86)
Header == <<"i", "d", TAB, "p", "h", "r", "a", "s", "e", LF>>

\* SELECT id, phrase FROM phrases ORDER BY id (88)
SelectAll(t) ==
    LET ids == OrderById(DOMAIN t)
    IN [k \in 1..Len(ids) |-> [id |-> ids[k], phrase |-> t[ids[k]]]]

\* a table of at most MaxDumpRows rows; the driver is not running
DumpInit ==
    /\ \E S \in SUBSET DumpIds : phrases \in [S -> PhraseValues]
    /\ dump_pc = "idle" /\ cur = <<>> /\ fout = <<>> /\ rows_written = 0
    /\ db = [i \in DOMAIN phrases |-> Row(FALSE, 0, NULL)]
    /\ files = [i \in DOMAIN phrases |-> "none"]
    /\ sess = db /\ db0 = db /\ files0 = files
    /\ pc = "idle"
    /\ max_attempts = 1 /\ dry_run = FALSE /\ max_phrases = 0
    /\ batch_size = 1 /\ sleep_on_error = 0
    /\ total_pending = 0 /\ total_target = 0
    /\ processed = 0 /\ done = 0 /\ skipped = 0 /\ failed = 0
    /\ rows = <<>> /\ idx = 1 /\ ok = FALSE /\ trace = <<>> /\ runs = 0

\* open the file, write the header, run the query (84-91)
DumpOpen ==
    /\ dump_pc = "idle"
    /\ fout' = Header
    /\ cur' = SelectAll(phrases)
    /\ rows_written' = 0
    /\ dump_pc' = "dumping"
    /\ UNCHANGED <<phrases, drivervars>>

\* for row in cur: clean the phrase and write one line (93-102)
DumpRow ==
    /\ dump_pc = "dumping"
    /\ cur # <<>>
    /\ LET pid == Head(cur).id
           phr == OrEmpty(Head(cur).phrase)
           phr_clean == Clean(phr)
       IN fout' = fout \o IdText(pid) \o <<TAB>> \o phr_clean \o <<LF>>
    /\ rows_written' = rows_written + 1
    /\ cur' = Tail(cur)
    /\ UNCHANGED <<phrases, dump_pc, drivervars>>

\* the cursor is exhausted: close the file and the connection (104-107)
DumpClose ==
    /\ dump_pc = "dumping"
    /\ cur = <<>>
    /\ dump_pc' = "closed"
    /\ UNCHANGED <<phrases, cur, fout, rows_written, drivervars>>

DumpNext ==
    \/ DumpOpen
    \/ DumpRow
    \/ DumpClose

DumpSpec == DumpInit /\ [][DumpNext]_vars

\* ---- C19 -------------------------------------------------------------------
\* the lines of a text: the runs of characters that end at each "\n"
RECURSIVE LinesOf(_, _)
LinesOf(text, line) ==
    IF text = <<>> THEN (IF line = <<>> THEN <<>> ELSE <<line>>)
    ELSE IF Head(text) = LF THEN <<line>> \o LinesOf(Tail(text), <<>>)
    ELSE LinesOf(Tail(text), Append(line, Head(text)))

CountOf(str, ch) == Cardinality({k \in 1..Len(str) : str[k] = ch})

\* the phrase as the claim describes it in the file
Spaced(phr) ==
    IF phr = PhraseNull THEN <<>>
    ELSE [k \in 1..Len(phr) |-> IF phr[k] \in {TAB, CR, LF} THEN SP ELSE phr[k]]

\* C19: the finished backup is the header line followed by one line per row
\* in ascending id order, each the id, one tab, and the phrase with every
\* tab, carriage return and newline turned into a space (NULL as empty); the
\* data lines are as many as the rows and each holds exactly one tab.
C19_BackupLines ==
    dump_pc = "closed" =>
        LET lines == LinesOf(fout, <<>>)
            ids == OrderById(DOMAIN phrases)
        IN /\ Len(lines) = 1 + Cardinality(DOMAIN phrases)
           /\ rows_written = Cardinality(DOMAIN phrases)
           /\ lines[1] = SubSeq(Header, 1, Len(Header) - 1)
           /\ \A k \in 1..Len(ids) :
                 /\ lines[k + 1] = IdText(ids[k]) \o <<TAB>> \o Spaced(phrases[ids[k]])
                 /\ CountOf(lines[k + 1], TAB) = 1
                 /\ CountOf(lines[k + 1], CR) = 0
           /\ \A k \in 1..(Len(ids) - 1) : ids[k] < ids[k + 1]

\* a finished dump of two rows: a NULL phrase and one made of a newline and a tab
C19_Witness ==
    /\ dump_pc = "closed" /\ rows_written = 2
    /\ \E i, j \in DOMAIN phrases :
          /\ i < j
          /\ phrases[i] = <<LF, TAB>>
          /\ phrases[j] = PhraseNull

\* a row at the cap of one run is retried by the next run with a higher cap
CapRaisedRetry ==
    /\ runs = 2 /\ max_attempts = 2 /\ pc = "finished"
    /\ \E i \in Ids :
          /\ db0[i] = Row(FALSE, 1, ErrMsg) /\ db[i] = Row(TRUE, 2, NULL)
          /\ \A j \in Ids : db0[j].tts_attempts <= 1
====
